---- MODULE Spec2Model ----
(***************************************************************************)
(* Model of cmd/mirror-git/main.go of k8scat/mirror-git-go: main, the      *)
(* bounded-concurrency orchestrator runMirror and the per-repository task  *)
(* mirrorRepo, together with the context deadline, the semaphore channel,  *)
(* the failedRepos slice and its mutex, and the clone directories.         *)
(*                                                                         *)
(* The program fixes maxWorkers at 5.  The channel protocol does not       *)
(* depend on the number, and the model checks it for a smaller ceiling     *)
(* (maxWorkers below) with lists shorter than, equal to and longer than    *)
(* the ceiling.                                                            *)
(***************************************************************************)
EXTENDS Integers, Sequences, FiniteSets, TLC

\* ------------------------------------------------------------------ bounds

\* Longest repository list sourceGit.ListRepos returns in the model.
MaxRepos == 3

\* Capacity of the semaphore channel (the code's maxWorkers, scaled down).
maxWorkers == 2

\* Last second of the wall clock, which starts at second 0.
MaxClock == 1

Tasks == 1..MaxRepos

\* ------------------------------------------------------------------ state

VARIABLES
    targetType,   \* the -target flag: "local" or a remote service
    mpc,          \* where main/runMirror stands
    listCalls,    \* number of sourceGit.ListRepos calls made
    listErr,      \* sourceGit.ListRepos returned an error
    nrepos,       \* len(allRepos)
    idx,          \* 1-based position of the range loop in allRepos
    sem,          \* number of tokens in the channel sem
    semClosed,    \* close(sem) has run
    waitSent,     \* iterations of the final "for range maxWorkers" done
    failedRepos,  \* the slice failedRepos: per descriptor, the reasons appended
    lockHolder,   \* task holding failedReposLock, 0 when unlocked
    summary,      \* what runMirror read at "if len(failedRepos) > 0"
    retErr,       \* runMirror's return value, "none" before it returns
    exitCode,     \* the process exit code, -1 while it runs
    ctxDone,      \* the deadline of ctx has expired
    rootExists,   \* workDir exists on disk
    tpc,          \* per task: where the goroutine stands
    err,          \* per task: what mirrorRepo returned, "none" before
    returns,      \* per task: number of times mirrorRepo returned
    dir,          \* per task: repoDir exists on disk
    snap,         \* per task: the slice value append() read
    admittedAfter,\* per task: ctx was already done when the slot was taken
    calls,        \* per task, until its outcome is recorded: the clone
                  \* commands, IsRepoExist calls, CreateRepo calls and push
                  \* commands its mirrorRepo has started, and the clone
                  \* command it ran
    res,          \* per task, until its outcome is recorded: what each of
                  \* them returned, "none" when it has not
    gh,           \* GitHub.CreateRepo called for one name, call after call:
                  \* the target's state, the requests sent and what the
                  \* calls returned
    listing,      \* ListRepos of a paginated source: the source's
                  \* repositories, the pages requested and the result
    naming        \* the names a run derives from its descriptors: the list
                  \* allRepos, the wall clock in seconds, and per position
                  \* of the list the repoDir and the target repository name
                  \* its mirrorRepo computed (<<>>, "none" before it started)

mainVars == <<targetType, mpc, listCalls, listErr, nrepos, idx, sem, semClosed, waitSent,
              failedRepos, lockHolder, summary, retErr, exitCode, ctxDone,
              rootExists>>
taskVars == <<tpc, err, returns, dir, snap, admittedAfter, calls, res>>
auxVars == <<gh, listing>>
vars == <<mainVars, taskVars, naming, auxVars>>

\* ------------------------------------------------------------------ values

TargetTypes == {"github", "local"}

Nil == "nil"
ErrCtx == "context cancelled before starting"
ErrClone == "clone failed"
ErrExist == "check exist failed"
ErrCreate == "create failed"
ErrPush == "push failed"
ErrPanic == "mirror panic"
Failures == {ErrCtx, ErrClone, ErrExist, ErrCreate, ErrPush, ErrPanic}

ErrList == "list repos failed"

Running == {"start", "clone", "exists", "create", "push", "ret", "append", "release"}

\* ------------------------------------------------- providers and commands

\* Name() of the target provider.
TargetName(t) == IF t = "local" THEN "local" ELSE t

\* A local target that hands out a push address.
GetRepoAddrNeverEmpty(t) == "https://" \o t

\* target.GetRepoAddr: empty for the local target.
GetRepoAddr(t) == IF t = "local" THEN "" ELSE "https://" \o t

\* A clone command that is bare for every target.
CloneCmdAlwaysBare(name) == <<"git", "clone", "--bare">>

\* mirrorRepo, lines 163-168: the clone command without its two arguments
\* gitUrl and repoDir, chosen by target.Name().
CloneCmd(name) ==
    IF name = "local" THEN <<"git", "clone">> ELSE <<"git", "clone", "--bare">>

\* What target.IsRepoExist can do: the local target always answers true;
\* a remote one answers true or false, fails, or faults.
IsRepoExistResults(t) ==
    IF t = "local" THEN {"true"} ELSE {"true", "false", "err", "panic"}

\* What target.CreateRepo can do.
CreateRepoResults(t) ==
    IF t = "local" THEN {"ok"} ELSE {"ok", "fail", "panic"}

\* cmd.Run of a command built with exec.Command, which ignores ctx.
CmdRunNoCtx(done) == {"ok", "fail"}

\* What cmd.Run of exec.CommandContext(ctx, ...) can return for a command in
\* flight: with ctx done the process is killed and Run returns an error;
\* otherwise the command exits with status zero or not.
CmdRunResults(done) == IF done THEN {"killed"} ELSE {"ok", "fail"}

\* Whether repoDir is on disk after the clone command: git removes what it
\* created when it fails, and cannot when it is killed.
DirAfterClone(r) == r \in {"ok", "killed"}

\* A mirrorRepo that does not look at ctx before it starts.
CtxErrNever(done) == FALSE

\* mirrorRepo, line 153: ctx.Err() is non-nil once the deadline has expired.
CtxErr(done) == done

\* A clone whose error is dropped.
CloneFailedIgnored(r) == FALSE

\* mirrorRepo, line 175: "if err != nil" after the clone command's Run.
CloneFailed(r) == r # "ok"

\* An IsRepoExist whose error is dropped.
ExistFailedIgnored(r) == FALSE

\* mirrorRepo, line 181: "if err != nil" after target.IsRepoExist.
ExistFailed(r) == r = "err"

\* A push whose error is dropped.
PushOutcomeIgnored(r) == Nil

\* mirrorRepo, lines 204-213: what mirrorRepo returns after the push command's
\* Run returned r.
PushOutcome(r) == IF r = "ok" THEN Nil ELSE ErrPush

\* A recover() that assigns a shadowed err: mirrorRepo returns nil.
RecoverLost(r) == Nil

\* The deferred recover() of mirrorRepo: the named result err is overwritten.
Recover(r) == ErrPanic

\* CreateRepo called whatever IsRepoExist answered.
NeedCreateAlways(exists) == TRUE

\* "if !exists" before target.CreateRepo.
NeedCreate(exists) == ~exists

\* A channel made with one slot too many.
CanSendOver(s) == s <= maxWorkers

\* "sem <- struct{}{}" can proceed while the buffer has room.
CanSend(s) == s < maxWorkers

\* A final loop that sends one token more than the channel holds.
WaitSendsLong == maxWorkers + 1

\* A final loop that stops one send short.
WaitSendsShort == maxWorkers - 1

\* Number of sends of the final loop "for range maxWorkers".
WaitSends == maxWorkers

\* A loop that walks the list from its end.
RangeRepoBackwards(i, n) == n + 1 - i

\* "for _, repo := range allRepos" and "}(repo)": the descriptor handed to
\* the goroutine in iteration i over a list of n.
RangeRepo(i, n) == i

\* A loop that stays on the descriptor it has just admitted.
NextIdxStay(i) == i

\* A loop that steps over every other descriptor.
NextIdxSkip(i) == i + 2

\* The range loop's step to the next descriptor.
NextIdx(i) == i + 1

\* The error of ListRepos left unchecked.
AfterListIgnoreErr(failed, n) == IF n = 0 THEN Nil ELSE "none"

\* runMirror, lines 87-94: what runMirror returns right after ListRepos, "none"
\* when it goes on: the wrapped error, or nil for an empty list.
AfterList(failed, n) ==
    IF failed THEN ErrList ELSE IF n = 0 THEN Nil ELSE "none"

\* runMirror, line 98: failedRepos starts empty.  The slice is kept grouped by
\* descriptor: failedRepos[i] is the sequence of reasons appended for
\* descriptor i, so that a lost or a doubled entry shows; the order of entries
\* of different descriptors, which the program only logs, is not kept.
NoFailures == [i \in Tasks |-> <<>>]

\* A runMirror that reports failed repositories as its own error.
RunMirrorResultFails(failed) == IF failed # NoFailures THEN "some repos mirror failed" ELSE Nil

\* runMirror's return value after the final loop.
RunMirrorResult(failed) == Nil

\* main's exit code for runMirror's return value.
ExitCodeOf(e) == IF e # Nil THEN 1 ELSE 0

\* main removes workDir unless targetType is "local".
RemovesWorkDir(t) == t # "local"

\* The call history of a task that has made no call yet.
NoCalls == [clone |-> 0, exist |-> 0, create |-> 0, push |-> 0, cloneCmd |-> <<>>]
NoRes == [clone |-> "none", exists |-> "none", create |-> "none", push |-> "none"]

\* ------------------------------------------------------------------ names

\* Repository names and namespaces the source can list.
Paths == {"app", "lib"}
Namespaces == {"org1", "org2"}

\* types.NewRepo(path, pathWithNamespace, ...): a descriptor.
NewRepo(path, ns) == [path |-> path, pathWithNamespace |-> <<ns, path>>]
Descriptors == {NewRepo(pa, ns) : pa \in Paths, ns \in Namespaces}

RepoImplGetPath(r) == r.path

\* The lists ListRepos can return: the source lists every repository once.
RepoLists ==
    {l \in UNION {[1..n -> Descriptors] : n \in 1..MaxRepos} :
        \A k, m \in 1..Len(l) : k # m => l[k] # l[m]}

\* mirrorRepo, line 159: workDir + "/" + repo.GetPath() + "_" + the second of
\* time.Now(); the work directory is the same for the whole run.
RepoDir(r, second) == <<RepoImplGetPath(r), second>>

\* mirrorRepo, lines 180, 187 and 194: the name passed to target.IsRepoExist,
\* target.CreateRepo and target.GetRepoAddr.
TargetRepoName(r) == RepoImplGetPath(r)

NoNaming == [repos |-> <<>>, now |-> 0,
             repoDir |-> [i \in Tasks |-> <<>>],
             target |-> [i \in Tasks |-> "none"]]

\* Most CreateRepo calls made one after another for one name.
MaxCalls == 3

\* Before the first CreateRepo call: nothing requested, nothing returned.
NoGh == [pc |-> "init", exists |-> FALSE, existed |-> FALSE, created |-> 0,
         posts |-> 0, postsWhileExists |-> 0, ret |-> <<>>, clean |-> <<>>]

\* A CreateRepo that does not look whether the repository exists.
ExistsReturnsNilNever(exists) == FALSE

\* GitHub.CreateRepo: "if exists { ...; return nil }".
ExistsReturnsNil(exists) == exists

\* What the GraphQL query of GitHub.IsRepoExist can do: it is answered, or the
\* request fails.
QueryResults == {"answered", "fail"}

\* What the POST of createUserRepo / createOrgRepo can do: for a name that
\* exists the API refuses it; otherwise the repository is created (201), the
\* request fails before it reaches the API, or the repository is created and
\* the response is lost.
PostResults(exists) ==
    IF exists THEN {"refused"} ELSE {"created", "fail", "lost"}

\* Page size of the paginated sources (the code's perPage, scaled down).
PerPage == 2

\* Most repositories a source holds.
MaxTotal == 7

\* The paginated sources.
PagedSources == {"github", "e_gitee_v8"}

\* Before ListRepos is called.
NoListing == [pc |-> "init", src |-> "github", total |-> 0, page |-> 1,
              repos |-> <<>>, requested |-> <<>>, failed |-> FALSE,
              result |-> <<>>]

\* What the source answers for page p when it holds the repositories
\* 1..total: the next perPage of them at most.
PageLen(total, p) ==
    IF total - (p - 1) * PerPage <= 0 THEN 0
    ELSE IF total - (p - 1) * PerPage >= PerPage THEN PerPage
    ELSE total - (p - 1) * PerPage
Page(total, p) == [k \in 1..PageLen(total, p) |-> (p - 1) * PerPage + k]

\* A loop that also stops on a full page.
LastPageOrFull(n) == n <= PerPage

\* ListRepos: "if len(rawRepos) < perPage { break }".
LastPage(n) == n < PerPage

\* ------------------------------------------------------------------ Init

Init ==
    /\ targetType \in TargetTypes
    /\ mpc = "list"
    /\ listCalls = 0
    /\ listErr = FALSE
    /\ nrepos = 0
    /\ idx = 1
    /\ sem = 0
    /\ semClosed = FALSE
    /\ waitSent = 0
    /\ failedRepos = NoFailures
    /\ lockHolder = 0
    /\ summary = NoFailures
    /\ retErr = "none"
    /\ exitCode = -1
    /\ ctxDone = FALSE
    /\ rootExists = TRUE
    /\ tpc = [i \in Tasks |-> "idle"]
    /\ err = [i \in Tasks |-> "none"]
    /\ returns = [i \in Tasks |-> 0]
    /\ dir = [i \in Tasks |-> FALSE]
    /\ snap = [i \in Tasks |-> NoFailures]
    /\ admittedAfter = [i \in Tasks |-> FALSE]
    /\ calls = [i \in Tasks |-> NoCalls]
    /\ res = [i \in Tasks |-> NoRes]
    /\ naming = NoNaming
    /\ gh = NoGh
    /\ listing = NoListing

\* ------------------------------------------------------------ orchestrator

\* runMirror, lines 86-94: the one call of sourceGit.ListRepos.  It fails, or
\* returns n descriptors; an empty list makes runMirror return nil at once.
ListRepos ==
    /\ mpc = "list"
    /\ listCalls' = listCalls + 1
    /\ \E failed \in BOOLEAN : \E r \in (IF failed THEN {0} ELSE 0..MaxRepos) :
         /\ listErr' = failed
         /\ nrepos' = r
         /\ retErr' = AfterList(failed, r)
         /\ mpc' = IF AfterList(failed, r) = "none" THEN "check" ELSE "returned"
    /\ UNCHANGED <<targetType, idx, sem, semClosed, waitSent, failedRepos,
                   lockHolder, summary, exitCode, ctxDone, rootExists>>
    /\ UNCHANGED taskVars
    /\ UNCHANGED <<naming, auxVars>>

\* runMirror, lines 106-113: the top of the range loop and its select on
\* ctx.Done() with a default case.
CheckCtx ==
    /\ mpc = "check"
    /\ mpc' = IF idx > nrepos \/ ctxDone THEN "wait" ELSE "acquire"
    /\ UNCHANGED <<targetType, listCalls, listErr, nrepos, idx, sem, semClosed, waitSent,
                   failedRepos, lockHolder, summary, retErr, exitCode, ctxDone,
                   rootExists>>
    /\ UNCHANGED taskVars
    /\ UNCHANGED <<naming, auxVars>>

\* runMirror, lines 115-126: the blocking send that takes a slot, and the go
\* statement that starts the task of descriptor idx.
Acquire ==
    /\ mpc = "acquire"
    /\ CanSend(sem)
    /\ sem' = sem + 1
    /\ tpc' = [tpc EXCEPT ![RangeRepo(idx, nrepos)] = "start"]
    /\ admittedAfter' = [admittedAfter EXCEPT ![RangeRepo(idx, nrepos)] = ctxDone]
    /\ idx' = NextIdx(idx)
    /\ mpc' = "check"
    /\ UNCHANGED <<targetType, listCalls, listErr, nrepos, semClosed, waitSent, failedRepos,
                   lockHolder, summary, retErr, exitCode, ctxDone, rootExists>>
    /\ UNCHANGED <<err, returns, dir, snap, calls, res>>
    /\ UNCHANGED <<naming, auxVars>>

\* runMirror, lines 132-134: one send of the final loop that fills the channel.
WaitSend ==
    /\ mpc = "wait"
    /\ CanSend(sem)
    /\ sem' = sem + 1
    /\ waitSent' = waitSent + 1
    /\ mpc' = IF waitSent + 1 >= WaitSends THEN "summary" ELSE "wait"
    /\ UNCHANGED <<targetType, listCalls, listErr, nrepos, idx, semClosed, failedRepos,
                   lockHolder, summary, retErr, exitCode, ctxDone, rootExists>>
    /\ UNCHANGED taskVars
    /\ UNCHANGED <<naming, auxVars>>

\* runMirror, lines 136-143: the summary reads failedRepos, runMirror returns
\* and the deferred close(sem) runs.
Summary ==
    /\ mpc = "summary"
    /\ summary' = failedRepos
    /\ retErr' = RunMirrorResult(failedRepos)
    /\ semClosed' = TRUE
    /\ mpc' = "returned"
    /\ UNCHANGED <<targetType, listCalls, listErr, nrepos, idx, sem, waitSent, failedRepos,
                   lockHolder, exitCode, ctxDone, rootExists>>
    /\ UNCHANGED taskVars
    /\ UNCHANGED <<naming, auxVars>>

\* main, lines 71-83: os.Exit(1) on an error of runMirror; otherwise the work
\* directory is removed unless the target is local, and main returns.
MainExit ==
    /\ mpc = "returned"
    /\ exitCode' = ExitCodeOf(retErr)
    /\ IF retErr = Nil /\ RemovesWorkDir(targetType)
       THEN /\ rootExists' = FALSE
            /\ dir' = [i \in Tasks |-> FALSE]
       ELSE UNCHANGED <<rootExists, dir>>
    /\ mpc' = "exited"
    /\ UNCHANGED <<targetType, listCalls, listErr, nrepos, idx, sem, semClosed, waitSent,
                   failedRepos, lockHolder, summary, retErr, ctxDone>>
    /\ UNCHANGED <<tpc, err, returns, snap, admittedAfter, calls, res>>
    /\ UNCHANGED <<naming, auxVars>>

\* main, line 68: the timer of context.WithTimeout fires.
Expire ==
    /\ ~ctxDone
    /\ mpc # "exited"
    /\ ctxDone' = TRUE
    /\ UNCHANGED <<targetType, mpc, listCalls, listErr, nrepos, idx, sem, semClosed,
                   waitSent, failedRepos, lockHolder, summary, retErr, exitCode,
                   rootExists>>
    /\ UNCHANGED taskVars
    /\ UNCHANGED <<naming, auxVars>>

\* ------------------------------------------------------------------ tasks

\* mirrorRepo returns e for task i.
Finish(i, e) ==
    /\ err' = [err EXCEPT ![i] = e]
    /\ returns' = [returns EXCEPT ![i] = @ + 1]
    /\ tpc' = [tpc EXCEPT ![i] = "ret"]

\* mirrorRepo, lines 152-174: the ctx.Err() check, then the clone command is run.
TaskStart(i) ==
    /\ tpc[i] = "start"
    /\ IF CtxErr(ctxDone)
       THEN /\ Finish(i, ErrCtx)
            /\ UNCHANGED calls
       ELSE /\ calls' = [calls EXCEPT ![i].clone = @ + 1,
                                   ![i].cloneCmd = CloneCmd(TargetName(targetType))]
            /\ tpc' = [tpc EXCEPT ![i] = "clone"]
            /\ UNCHANGED <<err, returns>>
    /\ UNCHANGED mainVars
    /\ UNCHANGED <<dir, snap, admittedAfter, res>>
    /\ UNCHANGED <<naming, auxVars>>

\* mirrorRepo, lines 174-180: the clone command returns; on success the task
\* calls target.IsRepoExist.
CloneReturn(i) ==
    /\ tpc[i] = "clone"
    /\ \E r \in CmdRunResults(ctxDone) :
         /\ res' = [res EXCEPT ![i].clone = r]
         /\ dir' = [dir EXCEPT ![i] = DirAfterClone(r)]
         /\ IF CloneFailed(r)
            THEN /\ Finish(i, ErrClone)
                 /\ UNCHANGED calls
            ELSE /\ calls' = [calls EXCEPT ![i].exist = @ + 1]
                 /\ tpc' = [tpc EXCEPT ![i] = "exists"]
                 /\ UNCHANGED <<err, returns>>
    /\ UNCHANGED mainVars
    /\ UNCHANGED <<snap, admittedAfter>>
    /\ UNCHANGED <<naming, auxVars>>

\* mirrorRepo, lines 194-213 for task i, whose results so far are r: the push
\* address is resolved; when it is empty mirrorRepo returns nil, otherwise the
\* push command is run, and cmd.Run fails at once when ctx is already done.
StartPush(i, r) ==
    IF GetRepoAddr(targetType) = ""
    THEN /\ Finish(i, Nil)
         /\ res' = [res EXCEPT ![i] = r]
         /\ UNCHANGED calls
    ELSE /\ calls' = [calls EXCEPT ![i].push = @ + 1]
         /\ IF ctxDone
            THEN /\ Finish(i, ErrPush)
                 /\ res' = [res EXCEPT ![i] = [r EXCEPT !.push = "ctx"]]
            ELSE /\ tpc' = [tpc EXCEPT ![i] = "push"]
                 /\ res' = [res EXCEPT ![i] = r]
                 /\ UNCHANGED <<err, returns>>

\* mirrorRepo, lines 180-194: target.IsRepoExist returns; the task fails, calls
\* target.CreateRepo, or goes on to the push.
ExistsReturn(i) ==
    /\ tpc[i] = "exists"
    /\ \E r \in IsRepoExistResults(targetType) :
         IF r = "panic"
         THEN /\ Finish(i, Recover(r))
              /\ res' = [res EXCEPT ![i].exists = r]
              /\ UNCHANGED calls
         ELSE IF ExistFailed(r)
         THEN /\ Finish(i, ErrExist)
              /\ res' = [res EXCEPT ![i].exists = r]
              /\ UNCHANGED calls
         ELSE IF NeedCreate(r = "true")
         THEN /\ calls' = [calls EXCEPT ![i].create = @ + 1]
              /\ res' = [res EXCEPT ![i].exists = r]
              /\ tpc' = [tpc EXCEPT ![i] = "create"]
              /\ UNCHANGED <<err, returns>>
         ELSE StartPush(i, [res[i] EXCEPT !.exists = r])
    /\ UNCHANGED mainVars
    /\ UNCHANGED <<dir, snap, admittedAfter>>
    /\ UNCHANGED <<naming, auxVars>>

\* mirrorRepo, lines 187-194: target.CreateRepo returns.
CreateReturn(i) ==
    /\ tpc[i] = "create"
    /\ \E r \in CreateRepoResults(targetType) :
         IF r = "panic"
         THEN /\ Finish(i, Recover(r))
              /\ res' = [res EXCEPT ![i].create = r]
              /\ UNCHANGED calls
         ELSE IF r = "fail"
         THEN /\ Finish(i, ErrCreate)
              /\ res' = [res EXCEPT ![i].create = r]
              /\ UNCHANGED calls
         ELSE StartPush(i, [res[i] EXCEPT !.create = r])
    /\ UNCHANGED mainVars
    /\ UNCHANGED <<dir, snap, admittedAfter>>
    /\ UNCHANGED <<naming, auxVars>>

\* mirrorRepo, lines 204-213: the push command returns.
PushReturn(i) ==
    /\ tpc[i] = "push"
    /\ \E r \in CmdRunResults(ctxDone) :
         /\ res' = [res EXCEPT ![i].push = r]
         /\ Finish(i, PushOutcome(r))
    /\ UNCHANGED mainVars
    /\ UNCHANGED <<dir, snap, admittedAfter, calls>>
    /\ UNCHANGED <<naming, auxVars>>

\* An append made without taking the mutex.
LockFreeAlways(h) == TRUE

\* failedReposLock.Lock() succeeds for a caller when nobody holds the mutex.
LockFree(h) == h = 0

\* runMirror, lines 121-123: after mirrorRepo returned, a failure takes the
\* mutex and append() reads the slice; a success goes to the deferred release.
\* The frame of mirrorRepo is gone.
TaskLock(i) ==
    /\ tpc[i] = "ret"
    /\ IF err[i] # Nil
       THEN /\ LockFree(lockHolder)
            /\ lockHolder' = i
            /\ snap' = [snap EXCEPT ![i] = failedRepos]
            /\ tpc' = [tpc EXCEPT ![i] = "append"]
       ELSE /\ tpc' = [tpc EXCEPT ![i] = "release"]
            /\ UNCHANGED <<lockHolder, snap>>
    /\ calls' = [calls EXCEPT ![i] = NoCalls]
    /\ res' = [res EXCEPT ![i] = NoRes]
    /\ UNCHANGED <<targetType, mpc, listCalls, listErr, nrepos, idx, sem, semClosed,
                   waitSent, failedRepos, summary, retErr, exitCode, ctxDone,
                   rootExists>>
    /\ UNCHANGED <<err, returns, dir, admittedAfter>>
    /\ UNCHANGED <<naming, auxVars>>

\* runMirror, lines 123-124: the appended slice is stored and the mutex released.
TaskAppend(i) ==
    /\ tpc[i] = "append"
    /\ failedRepos' = [snap[i] EXCEPT ![i] = Append(@, err[i])]
    /\ lockHolder' = 0
    /\ snap' = [snap EXCEPT ![i] = NoFailures]
    /\ tpc' = [tpc EXCEPT ![i] = "release"]
    /\ UNCHANGED <<targetType, mpc, listCalls, listErr, nrepos, idx, sem, semClosed,
                   waitSent, summary, retErr, exitCode, ctxDone, rootExists>>
    /\ UNCHANGED <<err, returns, dir, admittedAfter, calls, res>>
    /\ UNCHANGED <<naming, auxVars>>

\* runMirror, line 118: the deferred receive that gives the slot back.
TaskRelease(i) ==
    /\ tpc[i] = "release"
    /\ sem > 0
    /\ sem' = sem - 1
    /\ tpc' = [tpc EXCEPT ![i] = "done"]
    /\ UNCHANGED <<targetType, mpc, listCalls, listErr, nrepos, idx, semClosed, waitSent,
                   failedRepos, lockHolder, summary, retErr, exitCode, ctxDone,
                   rootExists>>
    /\ UNCHANGED <<err, returns, dir, snap, admittedAfter, calls, res>>
    /\ UNCHANGED <<naming, auxVars>>

\* ------------------------------------------------------------ specification

Next ==
    \/ ListRepos
    \/ CheckCtx
    \/ Acquire
    \/ WaitSend
    \/ Summary
    \/ MainExit
    \/ Expire
    \/ \E i \in Tasks : TaskStart(i)
    \/ \E i \in Tasks : CloneReturn(i)
    \/ \E i \in Tasks : ExistsReturn(i)
    \/ \E i \in Tasks : CreateReturn(i)
    \/ \E i \in Tasks : PushReturn(i)
    \/ \E i \in Tasks : TaskLock(i)
    \/ \E i \in Tasks : TaskAppend(i)
    \/ \E i \in Tasks : TaskRelease(i)

Spec == Init /\ [][Next]_vars

TypeOK ==
    /\ sem \in 0..maxWorkers
    /\ idx \in 1..(MaxRepos + 1)
    /\ lockHolder \in 0..MaxRepos
    /\ \A i \in Tasks : returns[i] \in 0..1

\* ------------------------------------------------------------------ claims

Admitted == {i \in Tasks : tpc[i] # "idle"}
Holding == {i \in Tasks : tpc[i] \in Running}
Returned == {i \in Tasks : tpc[i] \in {"ret", "append", "release", "done"}}
InSeq(x, q) == \E k \in 1..Len(q[x[1]]) : q[x[1]][k] = x[2]

\* C1: at every instant the number of tasks that have taken a slot and have
\* not yet given it back is at most the ceiling maxWorkers.
C1_AtMostWRunning == Cardinality(Holding) <= maxWorkers

\* The pool is full, with a list longer than the ceiling, while the loop waits
\* for a slot for the next descriptor.
C1_Witness ==
    /\ nrepos > maxWorkers
    /\ mpc = "acquire"
    /\ Cardinality(Holding) = maxWorkers

\* C2: when runMirror returns after a successful listing and with the deadline
\* not expired, each listed descriptor has produced exactly one outcome, nil or
\* a failure; and no descriptor ever produces two.
C2_OneOutcomeEach ==
    /\ \A i \in Tasks : returns[i] <= 1
    /\ (mpc \in {"returned", "exited"} /\ ~listErr /\ ~ctxDone) =>
           \A i \in 1..nrepos : returns[i] = 1 /\ err[i] \in {Nil} \cup Failures

\* runMirror has returned for a full list, the deadline has not expired, and
\* there is a success and a failure among the outcomes.
C2_Witness ==
    /\ mpc = "returned"
    /\ ~ctxDone
    /\ nrepos = MaxRepos
    /\ \E i, j \in 1..nrepos : err[i] = Nil /\ err[j] \in Failures

\* C3: runMirror reads failedRepos for the summary, and returns, only when
\* every task it admitted has returned from mirrorRepo, recorded its failure
\* and given its slot back; the summary holds every failure.
C3_JoinBeforeSummary ==
    mpc \in {"summary", "returned", "exited"} =>
        /\ \A i \in Admitted :
              /\ tpc[i] = "done"
              /\ returns[i] = 1
              /\ err[i] # Nil => InSeq(<<i, err[i]>>, failedRepos)
        /\ mpc # "summary" => summary = failedRepos

\* runMirror has returned from a list longer than the ceiling, whose admission
\* the deadline cut short, and the summary holds a failure.
C3_Witness ==
    /\ mpc = "returned"
    /\ nrepos > maxWorkers
    /\ ctxDone
    /\ \E i \in 1..nrepos : tpc[i] = "idle"
    /\ Admitted # {}
    /\ \A i \in Admitted : Len(summary[i]) = 1

\* The outcome of a mirrorRepo call as a function of what its own calls
\* returned.
OwnOutcome(r) ==
    IF r.clone = "none" THEN ErrCtx
    ELSE IF r.clone # "ok" THEN ErrClone
    ELSE IF r.exists = "panic" THEN ErrPanic
    ELSE IF r.exists = "err" THEN ErrExist
    ELSE IF r.create = "panic" THEN ErrPanic
    ELSE IF r.create = "fail" THEN ErrCreate
    ELSE IF r.push \in {"fail", "killed", "ctx"} THEN ErrPush
    ELSE Nil

\* C4: a runtime fault in a task's provider call makes mirrorRepo return a
\* failure; the task goes on to record it and to give its slot back (the slots
\* taken are exactly those of the running tasks and of the final loop); the
\* process exits non-zero only for a listing error; and the outcome of every
\* task is decided by what its own calls returned.
C4_FaultIsolated ==
    /\ \A i \in Tasks : tpc[i] = "ret" =>
          /\ "panic" \in {res[i].exists, res[i].create} => err[i] = ErrPanic
          /\ err[i] = OwnOutcome(res[i])
    /\ \A i \in Tasks : err[i] = ErrPanic => i \in Returned
    /\ sem = Cardinality(Holding) + waitSent
    /\ exitCode = 1 => listErr

\* The process has exited with code 0 after a run in which one task faulted
\* and another succeeded.
C4_Witness ==
    /\ mpc = "exited"
    /\ exitCode = 0
    /\ \E i, j \in Tasks :
          /\ tpc[i] = "done" /\ err[i] = ErrPanic
          /\ tpc[j] = "done" /\ err[j] = Nil

\* C5: a task that has reached its terminal state has deleted its repoDir,
\* unless the target is local, where the directory of a successful clone
\* survives.
C5_WorkspaceDeleted ==
    \A i \in Tasks : tpc[i] = "done" =>
        IF targetType = "local" THEN (err[i] = Nil => dir[i]) ELSE ~dir[i]

\* The deadline expired before every listed descriptor was admitted.
ExpiredBeforeAllAdmitted ==
    ctxDone /\ \E i \in 1..nrepos : tpc[i] = "idle" \/ admittedAfter[i]

\* C6: no task is admitted once the deadline has expired, and when the
\* deadline expired before all descriptors were admitted, fewer than nrepos
\* descriptors have an outcome when runMirror returns.
C6_NoAdmissionAfterExpiry ==
    /\ \A i \in Tasks : ~admittedAfter[i]
    /\ (mpc = "returned" /\ ~listErr /\ ExpiredBeforeAllAdmitted) =>
           Cardinality({i \in 1..nrepos : returns[i] > 0}) < nrepos

ErrCancelled == "cancelled: deadline exceeded"

\* C7 as stated: a clone or push command in flight when the deadline has
\* expired returns with the task failed for the reason "cancelled: deadline
\* exceeded".
C7_CancelledReason ==
    [][\A i \in Tasks :
          (tpc[i] \in {"clone", "push"} /\ ctxDone /\ tpc'[i] # tpc[i]) =>
              tpc'[i] = "ret" /\ err'[i] = ErrCancelled]_vars

\* C7 as amended: a clone or push command in flight when the deadline has
\* expired returns with the task failed, for the reason of a failed clone or
\* of a failed push.
C7_CancelledIsTransferFailure ==
    [][\A i \in Tasks :
          (tpc[i] \in {"clone", "push"} /\ ctxDone /\ tpc'[i] # tpc[i]) =>
              /\ tpc'[i] = "ret"
              /\ err'[i] = IF tpc[i] = "clone" THEN ErrClone ELSE ErrPush]_vars

\* A killed clone and a killed push have both just returned.
C7_Witness ==
    \E i, j \in Tasks :
        /\ tpc[i] = "ret" /\ res[i].clone = "killed" /\ err[i] = ErrClone
        /\ tpc[j] = "ret" /\ res[j].push = "killed" /\ err[j] = ErrPush

\* C8: ListRepos is called once; when it fails no task is admitted, nothing is
\* recorded or summarised, runMirror returns the error and the exit code is 1.
C8_ListOnceFatal ==
    /\ listCalls = IF mpc = "list" THEN 0 ELSE 1
    /\ listErr =>
          /\ Admitted = {}
          /\ failedRepos = NoFailures /\ summary = NoFailures
          /\ mpc \in {"returned", "exited"}
          /\ retErr = ErrList
          /\ mpc = "exited" => exitCode = 1

\* The process has exited after a failed listing.
C8_Witness == listErr /\ mpc = "exited" /\ exitCode = 1 /\ listCalls = 1

\* C9: after a successful listing runMirror returns nil and the exit code is 0.
C9_NoErrorAfterList ==
    ~listErr =>
        /\ mpc \in {"returned", "exited"} => retErr = Nil
        /\ mpc = "exited" => exitCode = 0
        /\ exitCode \in {-1, 0}

\* The process has exited with code 0 after a run in which the deadline
\* expired, a task faulted and another failed to clone.
C9_Witness ==
    /\ mpc = "exited"
    /\ exitCode = 0
    /\ ctxDone
    /\ \E i, j \in Tasks : err[i] = ErrPanic /\ err[j] = ErrClone

\* C10 as stated: a task whose IsRepoExist answered true has called CreateRepo
\* zero times and has run the push command when mirrorRepo returns.
C10_ExistsThenPush ==
    \A i \in Tasks : (tpc[i] = "ret" /\ res[i].exists = "true") =>
        calls[i].create = 0 /\ calls[i].push = 1

\* C10 as amended: a task whose IsRepoExist answered true never calls
\* CreateRepo, and has run the push command exactly when the target's push
\* address is not empty.
C10_ExistsSkipsCreate ==
    \A i \in Tasks : res[i].exists = "true" =>
        /\ calls[i].create = 0
        /\ tpc[i] \in {"push", "ret"}
        /\ calls[i].push = IF GetRepoAddr(targetType) = "" THEN 0 ELSE 1

\* mirrorRepo has returned nil after IsRepoExist answered true and a push.
C10_Witness ==
    \E i \in Tasks :
        /\ tpc[i] = "ret" /\ res[i].exists = "true"
        /\ calls[i].create = 0 /\ calls[i].push = 1
        /\ err[i] = Nil

\* C11: a task whose clone command exited non-zero has returned from mirrorRepo
\* with the reason "clone failed" and has called neither IsRepoExist nor
\* CreateRepo nor the push command.
C11_CloneFailureStops ==
    \A i \in Tasks : res[i].clone = "fail" =>
        /\ tpc[i] = "ret"
        /\ err[i] = ErrClone
        /\ calls[i].exist = 0 /\ calls[i].create = 0 /\ calls[i].push = 0

\* A clone has exited non-zero with the deadline not expired, while another
\* task got past its clone.
C11_Witness ==
    /\ ~ctxDone
    /\ \E i, j \in Tasks :
          /\ tpc[i] = "ret" /\ res[i].clone = "fail" /\ err[i] = ErrClone
          /\ res[j].clone = "ok" /\ calls[j].exist = 1

\* C12: once the process has exited, the root work directory is gone unless
\* the target is local, whatever way the run ended.
C12_RootDeletedAtEnd ==
    mpc = "exited" => (rootExists <=> targetType = "local")

\* Tasks between failedReposLock.Lock() and Unlock().
Appending == {i \in Tasks : tpc[i] = "append"}

\* C13: at most one task is inside the locked append at a time, and the
\* collector holds the outcome of every failed task that has finished its
\* append exactly once, and nothing for any other task.
C13_AppendsExclusive ==
    /\ Cardinality(Appending) <= 1
    /\ \A i \in Tasks : lockHolder = i <=> i \in Appending
    /\ \A i \in Tasks :
          failedRepos[i] = IF tpc[i] \in {"release", "done"} /\ err[i] # Nil
                           THEN <<err[i]>> ELSE <<>>

\* Two failed tasks complete concurrently: one is inside the locked append,
\* the other has returned from mirrorRepo and waits for the mutex, and the
\* collector already holds the failure of a third.
C13_Witness ==
    \E i, j, k \in Tasks :
        /\ tpc[i] = "append"
        /\ tpc[j] = "ret" /\ err[j] \in Failures
        /\ tpc[k] = "done" /\ failedRepos[k] = <<err[k]>>

\* ------------------------------------------------- names derived in a run

\* runMirror, line 86: ListRepos returns a list of distinct descriptors.
ListDescriptors ==
    /\ naming.repos = <<>>
    /\ \E l \in RepoLists : naming' = [naming EXCEPT !.repos = l]
    /\ UNCHANGED <<mainVars, taskVars, auxVars>>

\* A second of wall-clock time passes.
Tick ==
    /\ naming.now < MaxClock
    /\ naming' = [naming EXCEPT !.now = @ + 1]
    /\ UNCHANGED <<mainVars, taskVars, auxVars>>

\* mirrorRepo, lines 159-194, for the descriptor at position k: repoDir and
\* the target repository name are computed.
MirrorNames(k) ==
    /\ k \in 1..Len(naming.repos)
    /\ naming.repoDir[k] = <<>>
    /\ naming' = [naming EXCEPT
                    !.repoDir[k] = RepoDir(naming.repos[k], naming.now),
                    !.target[k] = TargetRepoName(naming.repos[k])]
    /\ UNCHANGED <<mainVars, taskVars, auxVars>>

NextNames ==
    \/ ListDescriptors
    \/ Tick
    \/ \E k \in Tasks : MirrorNames(k)

SpecNames == Init /\ [][NextNames]_vars

\* C14: any two distinct descriptors of the list whose tasks have started have
\* different target repository names and different repoDir paths.
C14_DisjointTargets ==
    \A k, m \in 1..Len(naming.repos) :
        (k # m /\ naming.repoDir[k] # <<>> /\ naming.repoDir[m] # <<>>) =>
            /\ naming.target[k] # naming.target[m]
            /\ naming.repoDir[k] # naming.repoDir[m]

\* C15: once the deadline has expired no task starts an IsRepoExist or a
\* CreateRepo call, and a task that is inside one of them leaves it cancelled,
\* with a failure.
C15_ProviderCallsCancellable ==
    [][\A i \in Tasks : ctxDone =>
          /\ calls'[i].exist <= calls[i].exist
          /\ calls'[i].create <= calls[i].create
          /\ (tpc[i] \in {"exists", "create"} /\ tpc'[i] # tpc[i]) =>
                 (tpc'[i] = "ret" /\ err'[i] \in Failures)]_vars

\* C16: the admitted descriptors are at every instant the first idx - 1 of the
\* list, a prefix of it.
C16_AdmittedIsPrefix ==
    /\ Admitted = 1..(idx - 1)
    /\ idx - 1 <= nrepos

\* A later descriptor has completed while an earlier one is still running,
\* and the last of the list is not admitted yet.
C16_Witness ==
    /\ nrepos = MaxRepos
    /\ \E i, j \in Tasks : i < j /\ tpc[i] \in {"clone", "push"} /\ tpc[j] = "done"
    /\ tpc[nrepos] = "idle"

\* C17: a descriptor is admitted only from the state of never having been
\* admitted, a task that has ended stays ended whatever its outcome, and the
\* clone command and the push command are started only by the one mirrorRepo
\* call of the descriptor, at most once each.
C17_NoRetry ==
    [][\A i \in Tasks :
          /\ (tpc'[i] = "start" /\ tpc[i] # "start") => tpc[i] = "idle"
          /\ tpc[i] # "idle" => tpc'[i] # "idle"
          /\ tpc[i] = "done" => (tpc'[i] = "done" /\ err'[i] = err[i])
          /\ calls'[i].clone > calls[i].clone => tpc[i] = "start"
          /\ calls'[i].push > calls[i].push => tpc[i] \in {"exists", "create"}
          /\ calls'[i].clone <= 1 /\ calls'[i].push <= 1
          /\ returns'[i] <= 1]_vars

\* The run is over; one task failed in its clone, one was cancelled before it
\* started, and each has returned once.
C17_Witness ==
    /\ mpc = "exited"
    /\ \E i, j \in Tasks :
          /\ tpc[i] = "done" /\ err[i] = ErrClone /\ returns[i] = 1
          /\ tpc[j] = "done" /\ err[j] = ErrCtx /\ returns[j] = 1

ErrExistsCheck == "exists-check failed"

\* C18 as stated: a task whose IsRepoExist returned an error has returned from
\* mirrorRepo with the reason "exists-check failed" and has called neither
\* CreateRepo nor the push command.
C18_ExistsCheckReason ==
    \A i \in Tasks : res[i].exists = "err" =>
        /\ tpc[i] = "ret"
        /\ err[i] = ErrExistsCheck
        /\ calls[i].create = 0 /\ calls[i].push = 0

\* C18 as amended: a task whose IsRepoExist returned an error has returned
\* from mirrorRepo with the reason "check exist failed" and has called neither
\* CreateRepo nor the push command.
C18_ExistFailureStops ==
    \A i \in Tasks : res[i].exists = "err" =>
        /\ tpc[i] = "ret"
        /\ err[i] = ErrExist
        /\ calls[i].create = 0 /\ calls[i].push = 0

\* IsRepoExist has failed for a task whose clone succeeded, while another
\* task went on to CreateRepo.
C18_Witness ==
    \E i, j \in Tasks :
        /\ tpc[i] = "ret" /\ res[i].clone = "ok" /\ res[i].exists = "err"
        /\ err[i] = ErrExist
        /\ calls[j].create = 1

\* C19: with the local target no task ever runs a push command, and a task
\* whose clone and IsRepoExist succeeded returns nil from mirrorRepo; with any
\* target whose push address is empty no push command is run.
C19_EmptyAddrNoPush ==
    /\ targetType = "local" =>
          \A i \in Tasks :
              /\ calls[i].push = 0 /\ res[i].push = "none"
              /\ tpc[i] # "push"
              /\ (tpc[i] = "ret" /\ res[i].clone = "ok") =>
                     (res[i].exists = "true" /\ err[i] = Nil)
    /\ GetRepoAddr(targetType) = "" => \A i \in Tasks : calls[i].push = 0

\* With the local target two tasks have returned from mirrorRepo, one with
\* nil after its clone and IsRepoExist, without a push, and one with a failed
\* clone.
C19_Witness ==
    /\ targetType = "local"
    /\ \E i, j \in Tasks :
          /\ tpc[i] = "ret" /\ res[i].clone = "ok" /\ res[i].exists = "true"
          /\ err[i] = Nil /\ calls[i].push = 0
          /\ tpc[j] = "ret" /\ err[j] = ErrClone

IsBare(cmd) == \E k \in 1..Len(cmd) : cmd[k] = "--bare"

\* C20: the clone command a task has run is a bare clone exactly when the
\* target is not "local".
C20_BareUnlessLocal ==
    \A i \in Tasks : calls[i].clone = 1 =>
        /\ calls[i].cloneCmd[1] = "git" /\ calls[i].cloneCmd[2] = "clone"
        /\ IsBare(calls[i].cloneCmd) <=> targetType # "local"

\* With the local target a clone of a working copy is in flight.
C20_Witness ==
    /\ targetType = "local"
    /\ \E i \in Tasks : tpc[i] = "clone" /\ calls[i].cloneCmd = <<"git", "clone">>

\* ------------------------------------------------------------ fair schedule

\* The steps of the main goroutine and of the goroutine of task i.
MainStep == ListRepos \/ CheckCtx \/ Acquire \/ WaitSend \/ Summary \/ MainExit
TaskStep(i) ==
    \/ TaskStart(i) \/ CloneReturn(i) \/ ExistsReturn(i) \/ CreateReturn(i)
    \/ PushReturn(i) \/ TaskLock(i) \/ TaskAppend(i) \/ TaskRelease(i)

\* The Go scheduler runs every goroutine that can run, and every command and
\* provider call in flight returns; the deadline may expire at any time or
\* never.
FairSpec ==
    /\ Spec
    /\ WF_vars(MainStep)
    /\ \A i \in Tasks : WF_vars(TaskStep(i))

\* C21: runMirror eventually returns, and once close(sem) has run no token is
\* sent to or received from the channel and no goroutine is left running.
C21_JoinTerminates ==
    /\ <>(mpc \in {"returned", "exited"})
    /\ [][semClosed => sem' = sem]_vars
    /\ [](semClosed => \A i \in Tasks : tpc[i] \in {"idle", "done"})

\* runMirror has returned and closed the channel after a list longer than the
\* ceiling was admitted in full and the deadline expired during the run.
C21_Witness ==
    /\ mpc = "returned" /\ semClosed
    /\ nrepos > maxWorkers
    /\ \A i \in 1..nrepos : tpc[i] = "done"
    /\ ctxDone
    /\ sem = maxWorkers /\ waitSent = maxWorkers

\* C22: a task admitted after the deadline had expired never starts a clone, a
\* provider call or a push, returns from mirrorRepo only with the reason
\* "context cancelled before starting", gives its slot back when it ends, and
\* has ended, with its failure recorded, when runMirror returns.
C22_LateTaskDoesNothing ==
    /\ [][\A i \in Tasks : admittedAfter'[i] =>
              /\ calls'[i] = NoCalls
              /\ tpc'[i] \notin {"clone", "exists", "create", "push"}
              /\ tpc'[i] \in {"ret", "append", "release", "done"} => err'[i] = ErrCtx
              /\ (tpc[i] = "release" /\ tpc'[i] = "done") => sem' = sem - 1]_vars
    /\ [](\A i \in Tasks :
              (admittedAfter[i] /\ mpc \in {"summary", "returned", "exited"}) =>
                  tpc[i] = "done" /\ failedRepos[i] = <<ErrCtx>>)

\* The loop waited for a slot for a descriptor beyond the ceiling, admitted it
\* after the expiry, and its task has ended and given the slot back.
C22_Witness ==
    \E i \in Tasks :
        /\ i > maxWorkers
        /\ admittedAfter[i]
        /\ tpc[i] = "done" /\ err[i] = ErrCtx
        /\ mpc = "wait" /\ sem < maxWorkers

\* What the calls of a mirrorRepo call returned, r, allows a nil return: the
\* clone succeeded, IsRepoExist answered, CreateRepo succeeded if the answer
\* was false, and the push succeeded or, the address being empty, was not run.
AllStepsSucceeded(r) ==
    /\ r.clone = "ok"
    /\ r.exists \in {"true", "false"}
    /\ r.exists = "false" => r.create = "ok"
    /\ r.exists = "true" => r.create = "none"
    /\ \/ r.push = "ok"
       \/ targetType = "local" /\ r.push = "none"

\* C23: at the step where mirrorRepo returns, it returns nil exactly when all
\* of its steps succeeded, and one of its failures otherwise.
C23_SuccessOnlyIfAllSucceeded ==
    [][\A i \in Tasks : (tpc'[i] = "ret" /\ tpc[i] # "ret") =>
          /\ err'[i] \in {Nil} \cup Failures
          /\ err'[i] = Nil <=> AllStepsSucceeded(res'[i])]_vars

\* mirrorRepo has returned nil after it created the repository and pushed,
\* while another call has returned a failed push after the same steps.
C23_Witness ==
    \E i, j \in Tasks :
        /\ tpc[i] = "ret" /\ err[i] = Nil
        /\ res[i].exists = "false" /\ res[i].create = "ok" /\ res[i].push = "ok"
        /\ tpc[j] = "ret" /\ err[j] = ErrPush
        /\ res[j].exists = "false" /\ res[j].create = "ok" /\ res[j].push = "fail"

\* ------------------------------------------- GitHub.CreateRepo, repeatedly

\* The target either has the repository before the first call or has not.
TargetState ==
    /\ gh.pc = "init"
    /\ \E e \in BOOLEAN : gh' = [gh EXCEPT !.pc = "idle", !.exists = e, !.existed = e]
    /\ UNCHANGED <<mainVars, taskVars, naming, listing>>

\* GitHub.CreateRepo is called: it sends the query of IsRepoExist.
CreateRepoCall ==
    /\ gh.pc = "idle"
    /\ Len(gh.ret) < MaxCalls
    /\ gh' = [gh EXCEPT !.pc = "query"]
    /\ UNCHANGED <<mainVars, taskVars, naming, listing>>

\* GitHub.CreateRepo: IsRepoExist returns; on an error CreateRepo returns it,
\* for a repository that exists it returns nil, otherwise it sends the POST.
QueryAnswer ==
    /\ gh.pc = "query"
    /\ \E a \in QueryResults :
         IF a = "fail"
         THEN gh' = [gh EXCEPT !.pc = "idle", !.ret = Append(@, "err"),
                               !.clean = Append(@, FALSE)]
         ELSE IF ExistsReturnsNil(gh.exists)
         THEN gh' = [gh EXCEPT !.pc = "idle", !.ret = Append(@, Nil),
                               !.clean = Append(@, TRUE)]
         ELSE gh' = [gh EXCEPT !.pc = "post", !.posts = @ + 1,
                               !.postsWhileExists = @ + (IF gh.exists THEN 1 ELSE 0)]
    /\ UNCHANGED <<mainVars, taskVars, naming, listing>>

\* createUserRepo / createOrgRepo: the POST returns; any status but 201 and
\* any transport error is returned as an error.
PostAnswer ==
    /\ gh.pc = "post"
    /\ \E a \in PostResults(gh.exists) :
         gh' = [gh EXCEPT
                  !.pc = "idle",
                  !.exists = @ \/ a \in {"created", "lost"},
                  !.created = @ + (IF a \in {"created", "lost"} THEN 1 ELSE 0),
                  !.ret = Append(@, IF a = "created" THEN Nil ELSE "err"),
                  !.clean = Append(@, a = "created")]
    /\ UNCHANGED <<mainVars, taskVars, naming, listing>>

NextCreate ==
    \/ TargetState
    \/ CreateRepoCall
    \/ QueryAnswer
    \/ PostAnswer

SpecCreate == Init /\ [][NextCreate]_vars

\* C24: calls of GitHub.CreateRepo for one name, one after another: no POST
\* is sent while the repository exists; the repository is created at most
\* once, and not at all if it existed before; a call returns nil exactly when
\* none of its requests failed; and once a call has returned nil the
\* repository exists, so that with no request failing every call returns nil
\* and the repository has been created exactly once or existed before.
C24_CreateRepoIdempotent ==
    /\ gh.postsWhileExists = 0
    /\ gh.created <= 1
    /\ gh.existed => gh.created = 0 /\ gh.posts = 0
    /\ \A k \in 1..Len(gh.ret) : gh.ret[k] = Nil <=> gh.clean[k]
    /\ (\E k \in 1..Len(gh.ret) : gh.ret[k] = Nil) =>
           /\ gh.exists
           /\ gh.created = IF gh.existed THEN 0 ELSE 1

\* MaxCalls calls in a row have returned nil for a repository that did not
\* exist before: the first created it and the others sent no POST.
C24_Witness ==
    /\ ~gh.existed
    /\ Len(gh.ret) = MaxCalls
    /\ \A k \in 1..Len(gh.ret) : gh.ret[k] = Nil
    /\ gh.created = 1 /\ gh.posts = 1

\* --------------------------------------------------- paginated ListRepos

\* ListRepos is called on a source that holds some number of repositories.
ListCall ==
    /\ listing.pc = "init"
    /\ \E src \in PagedSources, t \in 0..MaxTotal :
         listing' = [listing EXCEPT !.pc = "request", !.src = src, !.total = t]
    /\ UNCHANGED <<mainVars, taskVars, naming, gh>>

\* One iteration of the loop of GitHub.ListRepos (lines 39-90) and of
\* EnterpriseGiteeV8.ListRepos (lines 171-184): the page is requested; a
\* failed request returns nil and the error; otherwise the page is appended
\* and the loop ends on a page shorter than perPage (e_gitee_v8 ends on an
\* empty page before the append) or goes on with the next page.
PageAnswer ==
    /\ listing.pc = "request"
    /\ \E ok \in BOOLEAN :
         LET pg == Page(listing.total, listing.page)
             all == listing.repos \o pg
             req == Append(listing.requested, listing.page)
         IN IF ~ok
            THEN listing' = [listing EXCEPT !.pc = "returned", !.requested = req,
                                            !.failed = TRUE, !.result = <<>>]
            ELSE IF listing.src = "e_gitee_v8" /\ Len(pg) = 0
            THEN listing' = [listing EXCEPT !.pc = "returned", !.requested = req,
                                            !.result = listing.repos]
            ELSE IF LastPage(Len(pg))
            THEN listing' = [listing EXCEPT !.pc = "returned", !.requested = req,
                                            !.repos = all, !.result = all]
            ELSE listing' = [listing EXCEPT !.requested = req, !.repos = all,
                                            !.page = @ + 1]
    /\ UNCHANGED <<mainVars, taskVars, naming, gh>>

NextPages ==
    \/ ListCall
    \/ PageAnswer

SpecPages == Init /\ [][NextPages]_vars

\* The first page of a source holding total repositories that has fewer than
\* perPage entries.
FirstShortPage(total) ==
    CHOOSE p \in 1..(total + 1) :
        /\ PageLen(total, p) < PerPage
        /\ \A q \in 1..(p - 1) : PageLen(total, q) = PerPage

\* C25: the pages are requested in order from page 1 and none after the first
\* short page; when ListRepos returns without error its result is every
\* repository of the source in page order and the pages requested are exactly
\* 1..k, k the first short page; when a request failed the result is empty.
C25_PagesConcatenated ==
    /\ \A k \in 1..Len(listing.requested) : listing.requested[k] = k
    /\ listing.pc # "init" => Len(listing.requested) <= FirstShortPage(listing.total)
    /\ listing.pc = "returned" =>
          IF listing.failed
          THEN listing.result = <<>>
          ELSE /\ listing.result = [k \in 1..listing.total |-> k]
               /\ Len(listing.requested) = FirstShortPage(listing.total)

\* ListRepos has returned three full pages and the empty fourth one, and no
\* request failed.
C25_Witness ==
    /\ listing.pc = "returned" /\ ~listing.failed
    /\ listing.total = 3 * PerPage
    /\ Len(listing.requested) = 4
    /\ Len(listing.result) = 3 * PerPage

====
